---- MODULE Spec2Model ----
(***************************************************************************)
(* Chess-Vision: the vision-to-position reconciliation of ChessVisionApp.  *)
(*                                                                         *)
(* Two threads act on the application object: the detection worker         *)
(* (_detection_worker, a daemon thread) and the Qt main thread, which runs *)
(* the 500 ms timer tick (_update_ui) and the button handlers.  The worker  *)
(* is modelled one shared-memory access per step; the tick is modelled as  *)
(* read / clear / apply; a button handler is one step (it runs to          *)
(* completion on the main thread, no tick can start inside it, and the     *)
(* worker's steps are taken before or after it).                           *)
(*                                                                         *)
(* The rule engine (python-chess) is external.  It is modelled on a        *)
(* fragment of chess: the standard position in which only the two e-pawns  *)
(* move (single and double pushes, blocked by the other pawn).  A board is *)
(* the pair of pawn ranks and the number of white kings (a second one      *)
(* makes the piece count invalid) plus the usual metadata.                 *)
(*                                                                         *)
(* FENGenerator is modelled on the full 8x8 board, apart from the          *)
(* application: the application's cycles take its encodings as given.      *)
(*                                                                         *)
(* StockfishEngine (start, stop, analyze) is modelled apart from both, the *)
(* outcome of each call into chess.engine being the environment's choice.  *)
(***************************************************************************)
EXTENDS Integers, Sequences, FiniteSets

VARIABLES
    detection_running,          \* self.detection_running
    last_fen,                   \* self.last_fen
    pending_fen,                \* self.pending_fen
    auto_update_enabled,        \* self.auto_update_enabled
    recent_fens,                \* self.recent_fens
    consecutive_identical_fens, \* self.consecutive_identical_fens
    previous_board,             \* self.previous_board
    view_board,                 \* self.board_view.board
    aliased,                    \* board_view.board is previous_board (same object)
    board_history,              \* self.board_history
    redo_stack,                 \* self.redo_stack
    move_history,               \* self.move_history
    fen_input,                  \* self.fen_input text
    undo_enabled,               \* self.undo_button enabled
    redo_enabled,               \* self.redo_button enabled
    white_turn_radio,           \* self.white_turn_radio checked
    w_pc,                       \* position of the detection worker in its loop
    w_fen,                      \* the worker's local fen
    w_count,                    \* the worker's local copy of the counter (+= 1)
    t_pc,                       \* position of the timer tick
    t_fen,                      \* the tick's local fen
    scene,                      \* environment: the placement shown on the screen
    scene_changes,              \* environment: how often the screen has changed
    clicks,                     \* environment: how many user events have occurred
    run,                        \* observer: the undisturbed run of cycles in progress
    streak,                     \* observer: the streak of identical encodings in progress
    fresh,                      \* observer: identical valid encodings seen since the last re-seed
    detected_pieces,            \* FENGenerator: the detections handed to it
    white_at_bottom,            \* FENGenerator: self.white_at_bottom
    gen_board,                  \* FENGenerator: self.board, the piece on each square
    ret,                        \* FENGenerator: the last call, its argument and what it returned
    screen_selection,           \* self.screen_selection
    o_pc,                       \* position of a worker thread that outlived its join
    engine,                     \* StockfishEngine: self.engine
    spawned,                    \* StockfishEngine: engine processes launched so far
    engine_ret                  \* StockfishEngine: the last call and what it returned

vars == <<detection_running, last_fen, pending_fen, auto_update_enabled,
          recent_fens, consecutive_identical_fens, previous_board, view_board,
          aliased, board_history, redo_stack, move_history, fen_input,
          undo_enabled, redo_enabled, white_turn_radio,
          w_pc, w_fen, w_count, t_pc, t_fen, scene, scene_changes, clicks,
          run, streak, fresh, detected_pieces, white_at_bottom, gen_board,
          ret, screen_selection, o_pc, engine, spawned, engine_ret>>

----------------------------------------------------------------------------
(* Program constants and bounds of the model *)

stable_fen_threshold == 10

RecentLimit == 5

HistoryLimit == 10

\* Largest value the streak counter is let to reach (the code never caps it).
MaxCount == 11

\* Largest number of user events (clicks, drags) in one run.
MaxClicks == 3

\* Largest number of changes of the position shown on the screen in one run.
MaxSceneChanges == 1

----------------------------------------------------------------------------
(* The rule engine on the e-file fragment *)

WHITE == TRUE

BLACK == FALSE

Ranks == 2..7

\* chess.Board(): the standard initial position.
StartBoard ==
    [wp |-> 2, bp |-> 7, wk |-> 1, turn |-> WHITE, castling |-> "KQkq",
     ep |-> 0, halfmove |-> 0, fullmove |-> 1]

\* Board.board_fen(): the piece placement alone.
board_fen(b) == <<b.wp, b.bp, b.wk>>

\* chess.STARTING_FEN
STARTING_FEN ==
    [tag |-> "fen", wp |-> 2, bp |-> 7, wk |-> 1, turn |-> "w",
     castling |-> "KQkq", ep |-> "-", halfmove |-> 0, fullmove |-> 1]

\* None, for last_fen and pending_fen.
None == [tag |-> "none"]

\* Board.fen(): the full encoding; the en-passant field is written only when
\* an en-passant capture is legal, which never is the case on a single file.
fen(b) ==
    [tag |-> "fen", wp |-> b.wp, bp |-> b.bp, wk |-> b.wk,
     turn |-> IF b.turn = WHITE THEN "w" ELSE "b",
     castling |-> b.castling, ep |-> "-",
     halfmove |-> b.halfmove, fullmove |-> b.fullmove]

\* chess.Board(fen) raises for a text the position codec rejects; it counts
\* no pieces, so that a placement with two white kings is accepted.
ValidFen(f) ==
    /\ f.tag = "fen"
    /\ f.wp \in Ranks /\ f.bp \in Ranks /\ f.wp < f.bp
    /\ f.wk \in {1, 2}
    /\ f.turn \in {"w", "b"}

\* chess.Board(fen) for a text it accepts.
Board(f) ==
    [wp |-> f.wp, bp |-> f.bp, wk |-> f.wk, turn |-> (f.turn = "w"),
     castling |-> f.castling, ep |-> 0,
     halfmove |-> f.halfmove, fullmove |-> f.fullmove]

\* Board.legal_moves: the pushes of the e-pawn of the side to move, as
\* <<from rank, to rank>>, single push before double push.
legal_moves(b) ==
    IF b.turn = WHITE
    THEN (IF b.wp + 1 < b.bp THEN <<(<<b.wp, b.wp + 1>>)>> ELSE <<>>)
         \o (IF b.wp = 2 /\ b.bp > 4 THEN <<(<<2, 4>>)>> ELSE <<>>)
    ELSE (IF b.bp - 1 > b.wp THEN <<(<<b.bp, b.bp - 1>>)>> ELSE <<>>)
         \o (IF b.bp = 7 /\ b.wp < 5 THEN <<(<<7, 5>>)>> ELSE <<>>)

\* Board.push(move): the mover's pawn goes to the target rank, the turn
\* passes, a double push records the skipped square, the halfmove clock is
\* reset by a pawn move and the fullmove number grows after Black's move.
push(b, m) ==
    [wp |-> IF b.turn = WHITE THEN m[2] ELSE b.wp,
     bp |-> IF b.turn = WHITE THEN b.bp ELSE m[2],
     wk |-> b.wk,
     turn |-> ~b.turn,
     castling |-> b.castling,
     ep |-> IF m[2] - m[1] = 2 THEN m[1] + 1
            ELSE IF m[1] - m[2] = 2 THEN m[1] - 1 ELSE 0,
     halfmove |-> 0,
     fullmove |-> IF b.turn = WHITE THEN b.fullmove ELSE b.fullmove + 1]

\* Board.piece_type_at(square) is not None, on the e-file.
piece_at(b, rank) == rank = b.wp \/ rank = b.bp

\* Board.san(move) raises when no piece stands on the move's origin square.
san_raises(b, m) == ~piece_at(b, m[1])

\* Board.san(move) for a pawn push: the target square.
san(b, m) == <<"e", m[2]>>

\* Board.copy() keeps every field; object identity is tracked by `aliased`.
copy(b) == b

----------------------------------------------------------------------------
(* Inputs *)

\* The piece placements the detector and FENGenerator.generate_fen are let
\* to produce: after e2-e4, and after e2-e4 e7-e6.
DetectedPlacements == {<<4, 7, 1>>, <<4, 6, 1>>}

\* FENGenerator.generate_fen: the placement with the fixed default fields.
generate_fen(pl) ==
    [tag |-> "fen", wp |-> pl[1], bp |-> pl[2], wk |-> pl[3], turn |-> "w",
     castling |-> "KQkq", ep |-> "-", halfmove |-> 0, fullmove |-> 1]

\* An encoding that chess.Board(fen) rejects.
GarbledFen == [tag |-> "garbled"]

\* What one detection cycle can hand to the validation step: the encoding of
\* the placement on the screen, or a garbled one.
DetectedFens == {generate_fen(scene), GarbledFen}

\* Texts the user is let to type into the FEN field: a blocked position with
\* Black to move (no legal move on the file), and a text that is no FEN.
UserFens ==
    {[tag |-> "fen", wp |-> 4, bp |-> 5, wk |-> 1, turn |-> "b",
      castling |-> "KQkq", ep |-> "-", halfmove |-> 0, fullmove |-> 3],
     [tag |-> "text"]}

\* Python truthiness of a fen-or-None attribute.
Truthy(f) == f # None

----------------------------------------------------------------------------
(* Observers of the detection cycles (they record, they steer nothing) *)

\* No undisturbed run is in progress.
NoRun == [fen |-> None, len |-> 0, last0 |-> None]

\* No streak is in progress.
NoStreak == [fen |-> None, promoted |-> FALSE]

\* No cycle has produced a valid encoding since the last re-seed.
NoFresh == [fen |-> None, len |-> 0]

\* A cycle of the worker has produced f (None: nothing, or the loop ended).
\* run: a run begins when a valid encoding arrives on an empty stability
\* window; it goes on while every cycle produces the same encoding and the
\* main thread writes none of recent_fens, the counter, last_fen and
\* pending_fen; len counts its cycles and last0 is last_fen at its start.
\* streak: the maximal sequence of consecutive cycles producing the same
\* valid encoding, and whether that encoding was promoted during it.
\* fresh: the valid encoding of the latest cycles and how many consecutive
\* cycles, all started after the last re-seed of the confirmed position, have
\* produced it; a cycle that produces nothing is skipped.
Observe(f) ==
    /\ run' = IF ~ValidFen(f) THEN NoRun
              ELSE IF recent_fens = <<>> /\ consecutive_identical_fens = 0
                   THEN [fen |-> f, len |-> 1, last0 |-> last_fen]
              ELSE IF run.len > 0 /\ run.fen = f
                   THEN [run EXCEPT !.len = IF @ < MaxCount THEN @ + 1 ELSE @]
              ELSE NoRun
    /\ streak' = IF ~ValidFen(f) THEN NoStreak
                 ELSE IF streak.fen = f THEN streak
                 ELSE [fen |-> f, promoted |-> FALSE]
    /\ fresh' = IF f = None THEN fresh
                ELSE IF ~ValidFen(f) THEN NoFresh
                ELSE IF fresh.fen = f
                     THEN [fresh EXCEPT !.len = IF @ < MaxCount THEN @ + 1 ELSE @]
                ELSE [fen |-> f, len |-> 1]

\* A handler has emptied the stability window: run and streak end.
WindowCleared ==
    /\ run' = NoRun
    /\ streak' = NoStreak

\* A handler has replaced the confirmed position and emptied the stability
\* window: the cycles counted so far no longer count.
Reseeded ==
    /\ WindowCleared
    /\ fresh' = NoFresh

----------------------------------------------------------------------------
(* Initial state: ChessVisionApp.__init__ *)

\* self.screen_selection is None, or the region (x, y, w, h), of which the
\* model keeps y.
NoRegion == <<>>

\* The region load_selection finds in the selection file.
SavedRegion == <<30>>

\* ChessVisionApp.__init__, with the screen showing one of the placements;
\* the selection file holds a region or does not exist.
AppInit ==
    /\ detection_running = FALSE
    /\ last_fen = None
    /\ pending_fen = None
    /\ auto_update_enabled = FALSE
    /\ recent_fens = <<>>
    /\ consecutive_identical_fens = 0
    /\ previous_board = StartBoard
    /\ view_board = StartBoard
    /\ aliased = FALSE
    /\ board_history = <<>>
    /\ redo_stack = <<>>
    /\ move_history = <<>>
    /\ fen_input = STARTING_FEN
    /\ undo_enabled = FALSE
    /\ redo_enabled = FALSE
    /\ white_turn_radio = TRUE
    /\ w_pc = "dead"
    /\ w_fen = None
    /\ w_count = 0
    /\ screen_selection \in {NoRegion, SavedRegion}
    /\ o_pc = "dead"
    /\ t_pc = "idle"
    /\ t_fen = None
    /\ scene \in DetectedPlacements
    /\ scene_changes = 0
    /\ clicks = 0
    /\ run = NoRun
    /\ streak = NoStreak
    /\ fresh = NoFresh

\* FENGenerator.__init__: white is taken to be at the bottom; no call yet.
NoCall == [op |-> "none"]

\* No piece on a square.
NoPiece == "."

\* chess.Board(): the piece symbols of the standard position, square by
\* square (a1 = 0, h8 = 63).
StandardPlacement ==
    LET back == <<"r", "n", "b", "q", "k", "b", "n", "r">>
        upper == [r |-> "R", n |-> "N", b |-> "B", q |-> "Q", k |-> "K"]
    IN  [sq \in 0..63 |->
           IF sq \div 8 = 0 THEN upper[back[(sq % 8) + 1]]
           ELSE IF sq \div 8 = 1 THEN "P"
           ELSE IF sq \div 8 = 6 THEN "p"
           ELSE IF sq \div 8 = 7 THEN back[(sq % 8) + 1]
           ELSE NoPiece]

GenConstructed ==
    /\ detected_pieces = <<>>
    /\ white_at_bottom = TRUE
    /\ gen_board = StandardPlacement
    /\ ret = NoCall

\* StockfishEngine.__init__: self.engine = None.
NoEngine == 0

EngineConstructed ==
    /\ engine = NoEngine
    /\ spawned = 0
    /\ engine_ret = NoCall

Init == AppInit /\ GenConstructed /\ EngineConstructed

gen_vars == <<detected_pieces, white_at_bottom, gen_board, ret>>

engine_vars == <<engine, spawned, engine_ret>>

\* What the worker, the tick and the handlers of the reconciliation leave alone.
side_vars == <<screen_selection, o_pc, engine_vars>>

env_vars == <<scene, scene_changes, clicks, gen_vars, side_vars>>

obs_vars == <<run, streak, fresh>>

board_vars == <<previous_board, view_board, aliased, board_history,
                redo_stack, move_history>>

ui_vars == <<fen_input, undo_enabled, redo_enabled, white_turn_radio>>

tick_vars == <<t_pc, t_fen>>

main_vars == <<auto_update_enabled, board_vars, ui_vars, tick_vars>>

program_vars ==
    <<detection_running, last_fen, pending_fen, recent_fens,
      consecutive_identical_fens, w_pc, w_fen, w_count, main_vars>>

----------------------------------------------------------------------------
(* The detection worker: ChessVisionApp._detection_worker *)

\* while self.detection_running: detect(), generate_fen(), chess.Board(fen).
\* A cycle with no image or no detections goes straight to the sleep.
\* W_Detect without the validation: every encoding goes on to the stability
\* bookkeeping.
W_DetectUnvalidated ==
    /\ w_pc = "loop"
    /\ IF ~detection_running
       THEN w_pc' = "dead" /\ w_fen' = None /\ Observe(None)
       ELSE \/ w_pc' = "loop" /\ w_fen' = None /\ Observe(None)
            \/ \E f \in DetectedFens :
                 /\ w_fen' = f
                 /\ w_pc' = "check"
                 /\ Observe(f)
    /\ UNCHANGED <<detection_running, last_fen, pending_fen, recent_fens,
                   consecutive_identical_fens, w_count, main_vars, env_vars>>

\* W_Detect with a cycle without detections breaking the streak: the
\* counter goes back to 0.
W_DetectEmptyBreaks ==
    /\ w_pc = "loop"
    /\ IF ~detection_running
       THEN /\ w_pc' = "dead" /\ w_fen' = None /\ Observe(None)
            /\ UNCHANGED consecutive_identical_fens
       ELSE \/ /\ w_pc' = "loop" /\ w_fen' = None /\ Observe(None)
               /\ consecutive_identical_fens' = 0
            \/ \E f \in DetectedFens :
                 /\ w_fen' = f
                 /\ w_pc' = IF ValidFen(f) THEN "check" ELSE "invalid"
                 /\ Observe(f)
                 /\ UNCHANGED consecutive_identical_fens
    /\ UNCHANGED <<detection_running, last_fen, pending_fen, recent_fens,
                   w_count, main_vars, env_vars>>

W_Detect ==
    /\ w_pc = "loop"
    /\ IF ~detection_running
       THEN w_pc' = "dead" /\ w_fen' = None /\ Observe(None)
       ELSE \/ w_pc' = "loop" /\ w_fen' = None /\ Observe(None)
            \/ \E f \in DetectedFens :
                 /\ w_fen' = f
                 /\ w_pc' = IF ValidFen(f) THEN "check" ELSE "invalid"
                 /\ Observe(f)
    /\ UNCHANGED <<detection_running, last_fen, pending_fen, recent_fens,
                   consecutive_identical_fens, w_count, main_vars, env_vars>>

\* W_Invalid with the counter left as it is.
W_InvalidKeepsCounter ==
    /\ w_pc = "invalid"
    /\ w_pc' = "loop" /\ w_fen' = None
    /\ UNCHANGED <<detection_running, last_fen, pending_fen, recent_fens,
                   consecutive_identical_fens, w_count, main_vars, env_vars,
                   obs_vars>>

\* except Exception: self.consecutive_identical_fens = 0
W_Invalid ==
    /\ w_pc = "invalid"
    /\ consecutive_identical_fens' = 0
    /\ w_pc' = "loop" /\ w_fen' = None
    /\ UNCHANGED <<detection_running, last_fen, pending_fen, recent_fens,
                   w_count, main_vars, env_vars, obs_vars>>

\* if not self.recent_fens or ...: the first load of self.recent_fens
W_Check ==
    /\ w_pc = "check"
    /\ w_pc' = IF recent_fens = <<>> THEN "new" ELSE "compare"
    /\ UNCHANGED <<detection_running, last_fen, pending_fen, recent_fens,
                   consecutive_identical_fens, w_fen, w_count, main_vars,
                   env_vars, obs_vars>>

\* ... or fen != self.recent_fens[-1]: the second load; on a list emptied
\* since the first load the index raises and the except clause is entered.
W_Compare ==
    /\ w_pc = "compare"
    /\ w_pc' = IF recent_fens = <<>> THEN "invalid"
               ELSE IF w_fen # recent_fens[Len(recent_fens)] THEN "new"
               ELSE "same"
    /\ UNCHANGED <<detection_running, last_fen, pending_fen, recent_fens,
                   consecutive_identical_fens, w_fen, w_count, main_vars,
                   env_vars, obs_vars>>

\* Variant of W_New with partial credit: a change of encoding takes one off
\* the counter instead of restarting it.
W_NewPartialCredit ==
    /\ w_pc = "new"
    /\ consecutive_identical_fens' =
           IF consecutive_identical_fens > 1
           THEN consecutive_identical_fens - 1 ELSE 1
    /\ w_pc' = "append"
    /\ UNCHANGED <<detection_running, last_fen, pending_fen, recent_fens,
                   w_fen, w_count, main_vars, env_vars, obs_vars>>

\* self.consecutive_identical_fens = 1
W_New ==
    /\ w_pc = "new"
    /\ consecutive_identical_fens' = 1
    /\ w_pc' = "append"
    /\ UNCHANGED <<detection_running, last_fen, pending_fen, recent_fens,
                   w_fen, w_count, main_vars, env_vars, obs_vars>>

\* self.recent_fens.append(fen)
W_Append ==
    /\ w_pc = "append"
    /\ recent_fens' = Append(recent_fens, w_fen)
    /\ w_pc' = "trim"
    /\ UNCHANGED <<detection_running, last_fen, pending_fen,
                   consecutive_identical_fens, w_fen, w_count, main_vars, env_vars, obs_vars>>

\* if len(self.recent_fens) > 5
TooLong(fens) == Len(fens) > RecentLimit

\* pop0 taking the newest element instead of the oldest.
pop_last(fens) == SubSeq(fens, 1, Len(fens) - 1)

\* self.recent_fens.pop(0)
pop0(fens) == Tail(fens)

\* if len(self.recent_fens) > 5: self.recent_fens.pop(0).  The test and the
\* pop are one step: the main thread only ever replaces the list by an empty
\* one, and a replacement between the two (the pop then raises IndexError and
\* the except branch sets the counter to 0) leaves the list empty and the
\* counter 0, as the replacement after this step does.
W_Trim ==
    /\ w_pc = "trim"
    /\ recent_fens' = IF TooLong(recent_fens) THEN pop0(recent_fens)
                      ELSE recent_fens
    /\ w_pc' = "thresh"
    /\ UNCHANGED <<detection_running, last_fen, pending_fen,
                   consecutive_identical_fens, w_fen, w_count, main_vars, env_vars, obs_vars>>

\* self.consecutive_identical_fens += 1: the load ...
W_Same ==
    /\ w_pc = "same"
    /\ w_count' = consecutive_identical_fens
    /\ w_pc' = "incr"
    /\ UNCHANGED <<detection_running, last_fen, pending_fen, recent_fens,
                   consecutive_identical_fens, w_fen, main_vars, env_vars, obs_vars>>

\* Counter values above MaxCount are represented by MaxCount: the code only
\* ever compares the counter with stable_fen_threshold, which is below it.
Incremented(n) == IF n < MaxCount THEN n + 1 ELSE MaxCount

\* ... and the store of self.consecutive_identical_fens += 1
W_Incr ==
    /\ w_pc = "incr"
    /\ consecutive_identical_fens' = Incremented(w_count)
    /\ w_pc' = "thresh" /\ w_count' = 0
    /\ UNCHANGED <<detection_running, last_fen, pending_fen, recent_fens,
                   w_fen, main_vars, env_vars, obs_vars>>

\* Variant of IsStable with a strict comparison.
IsStableStrict(n) == n > stable_fen_threshold

\* if self.consecutive_identical_fens >= self.stable_fen_threshold
IsStable(n) == n >= stable_fen_threshold

W_Thresh ==
    /\ w_pc = "thresh"
    /\ IF IsStable(consecutive_identical_fens)
       THEN w_pc' = "cmp" /\ w_fen' = w_fen
       ELSE w_pc' = "loop" /\ w_fen' = None
    /\ UNCHANGED <<detection_running, last_fen, pending_fen, recent_fens,
                   consecutive_identical_fens, w_count, main_vars, env_vars, obs_vars>>

\* if fen != self.last_fen
W_Cmp ==
    /\ w_pc = "cmp"
    /\ IF w_fen # last_fen
       THEN w_pc' = "setlast" /\ w_fen' = w_fen
       ELSE w_pc' = "loop" /\ w_fen' = None
    /\ UNCHANGED <<detection_running, last_fen, pending_fen, recent_fens,
                   consecutive_identical_fens, w_count, main_vars, env_vars, obs_vars>>

\* self.last_fen = fen
W_SetLast ==
    /\ w_pc = "setlast"
    /\ last_fen' = w_fen
    /\ w_pc' = "setpend"
    /\ UNCHANGED <<detection_running, pending_fen, recent_fens,
                   consecutive_identical_fens, w_fen, w_count, main_vars, env_vars, obs_vars>>

\* Variant of W_SetPending in which the worker also puts the position on the
\* displayed board itself.
W_SetPendingAndShow ==
    /\ w_pc = "setpend"
    /\ pending_fen' = w_fen
    /\ view_board' = Board(w_fen)
    /\ aliased' = FALSE
    /\ w_pc' = "loop" /\ w_fen' = None
    /\ streak' = [streak EXCEPT !.promoted = TRUE]
    /\ UNCHANGED <<detection_running, last_fen, recent_fens,
                   consecutive_identical_fens, w_count, auto_update_enabled,
                   previous_board, board_history, redo_stack, move_history,
                   ui_vars, tick_vars, env_vars, run, fresh>>

\* self.pending_fen = fen
W_SetPending ==
    /\ w_pc = "setpend"
    /\ pending_fen' = w_fen
    /\ w_pc' = "loop" /\ w_fen' = None
    /\ streak' = [streak EXCEPT !.promoted = TRUE]
    /\ UNCHANGED <<detection_running, last_fen, recent_fens,
                   consecutive_identical_fens, w_count, main_vars, env_vars, run, fresh>>

Worker ==
    \/ W_Detect \/ W_Invalid \/ W_Check \/ W_Compare \/ W_New \/ W_Append
    \/ W_Trim
    \/ W_Same \/ W_Incr \/ W_Thresh \/ W_Cmp \/ W_SetLast \/ W_SetPending

----------------------------------------------------------------------------
(* Reconciliation: _find_move_between_positions and _auto_update_board *)

NoMove == <<>>

\* The first legal move of previous whose resulting placement equals the
\* placement of new, or None.
find_move_between_positions(previous, new) ==
    LET ms == legal_moves(previous)
        hits == {i \in 1..Len(ms) :
                    board_fen(push(copy(previous), ms[i])) = board_fen(new)}
    IN  IF hits = {} THEN NoMove
        ELSE ms[CHOOSE i \in hits : \A j \in hits : i <= j]

\* add_move_to_history: the entry for a move, numbered from the displayed
\* board after the move; the list keeps its last 10 entries.
history_entry(shown, move_san) ==
    IF shown.turn = WHITE
    THEN [num |-> shown.fullmove - 1, black |-> TRUE, san |-> move_san]
    ELSE [num |-> shown.fullmove, black |-> FALSE, san |-> move_san]

add_move_to_history(hist, shown, move_san) ==
    LET h == Append(hist, history_entry(shown, move_san))
    IN  IF Len(h) > HistoryLimit
        THEN SubSeq(h, Len(h) - HistoryLimit + 1, Len(h)) ELSE h

\* Variant of apply_move that pushes the move onto a copy of previous_board
\* and shows the copy.
apply_move_to_copy(s, move) ==
    LET pushed == push(copy(s.previous_board), move)
    IN  [s EXCEPT !.view_board = pushed, !.aliased = FALSE]

\* The move path of _auto_update_board: the move is pushed onto
\* previous_board itself, which becomes the displayed board (one object);
\* then previous_board.san(move) is evaluated on the board after the push,
\* and when it raises the handler's except clause ends the update there.
apply_move(s, move) ==
    LET pushed == push(s.previous_board, move)
        shown == [s EXCEPT !.previous_board = pushed, !.view_board = pushed,
                           !.aliased = TRUE]
    IN  IF san_raises(pushed, move)
        THEN shown
        ELSE [shown EXCEPT
                !.move_history =
                    add_move_to_history(s.move_history, pushed, san(pushed, move)),
                !.fen_input = fen(pushed),
                !.white_turn_radio = pushed.turn,
                !.undo_enabled = TRUE,
                !.redo_enabled = FALSE]

\* Variant of adopt_directly that keeps the side to move of previous_board.
adopt_keeping_turn(s, new_board) ==
    LET kept == [new_board EXCEPT !.turn = s.previous_board.turn]
    IN  [s EXCEPT !.previous_board = copy(kept), !.view_board = kept,
                  !.aliased = FALSE,
                  !.white_turn_radio = kept.turn,
                  !.undo_enabled = TRUE,
                  !.redo_enabled = FALSE]

\* The direct path of _auto_update_board: the board parsed from the fen
\* replaces both boards.
adopt_directly(s, new_board) ==
    [s EXCEPT !.previous_board = copy(new_board), !.view_board = new_board,
              !.aliased = FALSE,
              !.white_turn_radio = new_board.turn,
              !.undo_enabled = TRUE,
              !.redo_enabled = FALSE]

\* The main-thread state _auto_update_board reads and writes, as a record.
MainState ==
    [previous_board |-> previous_board, view_board |-> view_board,
     aliased |-> aliased, board_history |-> board_history,
     redo_stack |-> redo_stack, move_history |-> move_history,
     fen_input |-> fen_input, undo_enabled |-> undo_enabled,
     redo_enabled |-> redo_enabled, white_turn_radio |-> white_turn_radio]

\* _auto_update_board(fen) from main-thread state s.
auto_update_board(s, f) ==
    LET saved == [s EXCEPT !.board_history = Append(@, copy(s.view_board)),
                           !.redo_stack = <<>>]
    IN  IF ~ValidFen(f) THEN saved
        ELSE LET new_board == Board(f)
                 move == find_move_between_positions(s.previous_board, new_board)
             IN  IF move # NoMove
                 THEN apply_move(saved, move)
                 ELSE adopt_directly(saved, new_board)

\* The main-thread state becomes s.
SetMainState(s) ==
    /\ previous_board' = s.previous_board
    /\ view_board' = s.view_board
    /\ aliased' = s.aliased
    /\ board_history' = s.board_history
    /\ redo_stack' = s.redo_stack
    /\ move_history' = s.move_history
    /\ fen_input' = s.fen_input
    /\ undo_enabled' = s.undo_enabled
    /\ redo_enabled' = s.redo_enabled
    /\ white_turn_radio' = s.white_turn_radio

----------------------------------------------------------------------------
(* The timer tick: ChessVisionApp._update_ui and _direct_update_board *)

worker_vars == <<w_pc, w_fen, w_count>>

\* if self.pending_fen: fen = self.pending_fen
T_Read ==
    /\ t_pc = "idle"
    /\ Truthy(pending_fen)
    /\ t_fen' = pending_fen
    /\ t_pc' = "clear"
    /\ UNCHANGED <<detection_running, last_fen, pending_fen, recent_fens,
                   consecutive_identical_fens, auto_update_enabled,
                   board_vars, ui_vars, worker_vars, env_vars, obs_vars>>

\* self.pending_fen = None
T_Clear ==
    /\ t_pc = "clear"
    /\ pending_fen' = None
    /\ t_pc' = "apply"
    /\ run' = NoRun
    /\ UNCHANGED <<detection_running, last_fen, recent_fens,
                   consecutive_identical_fens, auto_update_enabled,
                   board_vars, ui_vars, worker_vars, t_fen, env_vars, streak, fresh>>

\* _direct_update_board without the test of auto_update_enabled.
direct_update_always(s, f) ==
    IF ~ValidFen(f) THEN s
    ELSE auto_update_board([s EXCEPT !.fen_input = f], f)

\* _direct_update_board(fen): validate, show the fen, remember it, and with
\* auto-update on reconcile the board with it.
direct_update_board(s, f) ==
    IF ~ValidFen(f) THEN s
    ELSE LET shown == [s EXCEPT !.fen_input = f]
         IN  IF auto_update_enabled THEN auto_update_board(shown, f) ELSE shown

T_Apply ==
    /\ t_pc = "apply"
    /\ SetMainState(direct_update_board(MainState, t_fen))
    /\ last_fen' = IF ValidFen(t_fen) THEN t_fen ELSE last_fen
    /\ t_pc' = "idle" /\ t_fen' = None
    /\ run' = IF ValidFen(t_fen) THEN NoRun ELSE run
    /\ UNCHANGED <<detection_running, pending_fen, recent_fens,
                   consecutive_identical_fens, auto_update_enabled,
                   worker_vars, env_vars, streak, fresh>>

Tick == T_Read \/ T_Clear \/ T_Apply

----------------------------------------------------------------------------
(* Button handlers, on the main thread between two ticks *)

\* One user event: a handler runs on the main thread when no tick is in
\* progress.
Click ==
    /\ clicks < MaxClicks
    /\ clicks' = clicks + 1
    /\ UNCHANGED <<scene, scene_changes, gen_vars, side_vars>>

\* _on_set_position: the undo entry is saved and the redo stack cleared
\* before chess.Board(fen) is tried; a rejected text leaves through the
\* except clause, which rewrites the FEN field from the displayed board.
SetPosition(f) ==
    /\ board_history' = Append(board_history, copy(view_board))
    /\ redo_stack' = <<>>
    /\ IF ValidFen(f)
       THEN /\ previous_board' = copy(Board(f))
            /\ view_board' = Board(f)
            /\ aliased' = FALSE
            /\ move_history' = <<>>
            /\ white_turn_radio' = Board(f).turn
            /\ fen_input' = f
            /\ last_fen' = f
            /\ recent_fens' = <<>>
            /\ consecutive_identical_fens' = 0
            /\ undo_enabled' = TRUE
            /\ redo_enabled' = FALSE
            /\ Reseeded
       ELSE /\ fen_input' = fen(view_board)
            /\ UNCHANGED <<previous_board, view_board, aliased,
                           move_history, white_turn_radio, last_fen,
                           recent_fens, consecutive_identical_fens,
                           undo_enabled, redo_enabled, obs_vars>>

\* The texts the FEN field can hold when Set Position is clicked.
FenTexts == UserFens \cup {fen_input}

OnSetPosition ==
    /\ t_pc = "idle"
    /\ Click
    /\ \E f \in FenTexts : SetPosition(f)
    /\ UNCHANGED <<detection_running, pending_fen, auto_update_enabled,
                   worker_vars, tick_vars>>

\* _on_reset
OnReset ==
    /\ t_pc = "idle"
    /\ Click
    /\ board_history' = Append(board_history, copy(view_board))
    /\ redo_stack' = <<>>
    /\ previous_board' = copy(StartBoard)
    /\ view_board' = StartBoard
    /\ aliased' = FALSE
    /\ fen_input' = STARTING_FEN
    /\ move_history' = <<>>
    /\ white_turn_radio' = StartBoard.turn
    /\ recent_fens' = <<>>
    /\ consecutive_identical_fens' = 0
    /\ undo_enabled' = TRUE
    /\ redo_enabled' = FALSE
    /\ Reseeded
    /\ UNCHANGED <<detection_running, last_fen, pending_fen,
                   auto_update_enabled, worker_vars, tick_vars>>

\* _on_reset_to_detected: only with a last_fen; the stored fen was validated
\* when it was stored.
OnResetToDetected ==
    /\ t_pc = "idle"
    /\ Click
    /\ Truthy(last_fen)
    /\ board_history' = Append(board_history, copy(view_board))
    /\ redo_stack' = <<>>
    /\ previous_board' = copy(Board(last_fen))
    /\ view_board' = Board(last_fen)
    /\ aliased' = FALSE
    /\ fen_input' = last_fen
    /\ move_history' = <<>>
    /\ recent_fens' = <<>>
    /\ consecutive_identical_fens' = 0
    /\ white_turn_radio' = Board(last_fen).turn
    /\ undo_enabled' = TRUE
    /\ redo_enabled' = FALSE
    /\ Reseeded
    /\ UNCHANGED <<detection_running, last_fen, pending_fen,
                   auto_update_enabled, worker_vars, tick_vars>>

\* _on_undo from main-thread state s: nothing with an empty undo stack;
\* otherwise the displayed board goes onto the redo stack and the newest undo
\* entry becomes the displayed board and, copied, previous_board.
on_undo(s) ==
    IF s.board_history = <<>> THEN s
    ELSE LET restored == s.board_history[Len(s.board_history)]
             rest == SubSeq(s.board_history, 1, Len(s.board_history) - 1)
         IN  [s EXCEPT !.redo_stack = Append(@, copy(s.view_board)),
                       !.board_history = rest,
                       !.view_board = restored,
                       !.previous_board = copy(restored),
                       !.aliased = FALSE,
                       !.fen_input = fen(restored),
                       !.white_turn_radio = restored.turn,
                       !.redo_enabled = TRUE,
                       !.undo_enabled = (Len(rest) > 0)]

\* _on_redo from main-thread state s: nothing with an empty redo stack;
\* otherwise the displayed board goes onto the undo stack and the newest redo
\* entry becomes the displayed board and, copied, previous_board.
on_redo(s) ==
    IF s.redo_stack = <<>> THEN s
    ELSE LET next_board == s.redo_stack[Len(s.redo_stack)]
             rest == SubSeq(s.redo_stack, 1, Len(s.redo_stack) - 1)
         IN  [s EXCEPT !.board_history = Append(@, copy(s.view_board)),
                       !.redo_stack = rest,
                       !.view_board = next_board,
                       !.previous_board = copy(next_board),
                       !.aliased = FALSE,
                       !.fen_input = fen(next_board),
                       !.white_turn_radio = next_board.turn,
                       !.undo_enabled = TRUE,
                       !.redo_enabled = (Len(rest) > 0)]

\* _on_undo, by a click on the enabled Undo button.
OnUndo ==
    /\ t_pc = "idle"
    /\ Click
    /\ undo_enabled
    /\ board_history # <<>>
    /\ SetMainState(on_undo(MainState))
    /\ UNCHANGED <<detection_running, last_fen, pending_fen, recent_fens,
                   consecutive_identical_fens, auto_update_enabled,
                   worker_vars, tick_vars, obs_vars>>

\* _on_redo, by a click on the enabled Redo button.
OnRedo ==
    /\ t_pc = "idle"
    /\ Click
    /\ redo_enabled
    /\ redo_stack # <<>>
    /\ SetMainState(on_redo(MainState))
    /\ UNCHANGED <<detection_running, last_fen, pending_fen, recent_fens,
                   consecutive_identical_fens, auto_update_enabled,
                   worker_vars, tick_vars, obs_vars>>

\* _on_toggle_auto_update: switching it on clears the stability window and
\* reconciles the board with last_fen at once.
OnToggleAutoUpdate ==
    /\ t_pc = "idle"
    /\ Click
    /\ auto_update_enabled' = ~auto_update_enabled
    /\ IF ~auto_update_enabled
       THEN /\ recent_fens' = <<>>
            /\ consecutive_identical_fens' = 0
            /\ WindowCleared
            /\ UNCHANGED fresh
            /\ IF Truthy(last_fen)
               THEN SetMainState(auto_update_board(MainState, last_fen))
               ELSE UNCHANGED <<board_vars, ui_vars>>
       ELSE UNCHANGED <<recent_fens, consecutive_identical_fens, board_vars,
                        ui_vars, obs_vars>>
    /\ UNCHANGED <<detection_running, last_fen, pending_fen, worker_vars,
                   tick_vars>>

\* _on_turn_changed, by a click on the unchecked radio button:
\* ChessBoardView.set_turn replaces the displayed board by a copy with the
\* chosen side to move.
OnTurnChanged ==
    /\ t_pc = "idle"
    /\ Click
    /\ white_turn_radio' = ~white_turn_radio
    /\ view_board' = [copy(view_board) EXCEPT !.turn = white_turn_radio']
    /\ aliased' = FALSE
    /\ UNCHANGED <<detection_running, last_fen, pending_fen, recent_fens,
                   consecutive_identical_fens, auto_update_enabled,
                   previous_board, board_history, redo_stack, move_history,
                   fen_input, undo_enabled, redo_enabled, worker_vars,
                   tick_vars, obs_vars>>

\* ChessBoardView.mouseReleaseEvent with a legal move, then _on_move_made:
\* the move is pushed onto the displayed board object, the callback saves
\* previous_board for undo and records the move.
OnMoveMade ==
    /\ t_pc = "idle"
    /\ Click
    /\ \E i \in 1..Len(legal_moves(view_board)) :
         LET move == legal_moves(view_board)[i]
             moved == push(view_board, move)
             prev == IF aliased THEN moved ELSE previous_board
         IN  /\ view_board' = moved
             /\ board_history' = Append(board_history, copy(prev))
             /\ redo_stack' = <<>>
             /\ move_history' =
                    add_move_to_history(move_history, moved, san(view_board, move))
             /\ fen_input' = fen(moved)
             /\ white_turn_radio' = moved.turn
             /\ previous_board' = copy(moved)
             /\ aliased' = FALSE
             /\ undo_enabled' = TRUE
             /\ redo_enabled' = FALSE
    /\ UNCHANGED <<detection_running, last_fen, pending_fen, recent_fens,
                   consecutive_identical_fens, auto_update_enabled,
                   worker_vars, tick_vars, obs_vars>>

\* OnToggleDetection without the test for a screen region.
OnToggleDetectionUnchecked ==
    /\ t_pc = "idle"
    /\ Click
    /\ IF ~detection_running
       THEN /\ w_pc = "dead"
            /\ detection_running' = TRUE
            /\ w_pc' = "loop"
       ELSE /\ detection_running' = FALSE
            /\ w_pc' = w_pc
    /\ UNCHANGED <<last_fen, pending_fen, recent_fens,
                   consecutive_identical_fens, w_fen, w_count, main_vars,
                   obs_vars>>

\* _on_toggle_detection: without a screen region the start is refused and
\* the flag is put back; with one, _start_detection starts the worker thread;
\* _stop_detection clears the flag and joins the thread.  Here a start is
\* taken once the previous worker thread has ended.
OnToggleDetection ==
    /\ t_pc = "idle"
    /\ Click
    /\ IF ~detection_running
       THEN IF screen_selection = NoRegion
            THEN /\ detection_running' = FALSE
                 /\ w_pc' = w_pc
            ELSE /\ w_pc = "dead"
                 /\ detection_running' = TRUE
                 /\ w_pc' = "loop"
       ELSE /\ detection_running' = FALSE
            /\ w_pc' = w_pc
    /\ UNCHANGED <<last_fen, pending_fen, recent_fens,
                   consecutive_identical_fens, w_fen, w_count, main_vars,
                   obs_vars>>

Handler ==
    \/ OnSetPosition \/ OnReset \/ OnResetToDetected \/ OnUndo \/ OnRedo
    \/ OnToggleAutoUpdate \/ OnTurnChanged \/ OnMoveMade \/ OnToggleDetection

\* The position on the screen changes.
SceneChange ==
    /\ scene_changes < MaxSceneChanges
    /\ scene' \in DetectedPlacements \ {scene}
    /\ scene_changes' = scene_changes + 1
    /\ UNCHANGED <<clicks, program_vars, obs_vars, gen_vars, side_vars>>

Next == Worker \/ Tick \/ Handler \/ SceneChange

Spec == Init /\ [][Next]_vars

----------------------------------------------------------------------------
(* The worker alone on a screen that keeps changing *)

\* The placements of the changing screen: those above, and after e2-e3.
WindowPlacements == DetectedPlacements \cup {<<3, 7, 1>>}

\* The position on the screen changes between two captures, any number of
\* times.
Flicker ==
    /\ w_pc = "loop"
    /\ scene' \in WindowPlacements \ {scene}
    /\ UNCHANGED <<scene_changes, clicks, program_vars, obs_vars, gen_vars,
                   side_vars>>

WindowNext == Worker \/ OnToggleDetection \/ Flicker

WindowSpec == Init /\ [][WindowNext]_vars

----------------------------------------------------------------------------
(* The main thread alone: promotions arrive, the tick reconciles *)

\* Bound on the number of promotions in one run.
MaxPromotions == 3

\* The placements that get promoted: after e2-e4; the initial placement with
\* a second white king; the latter after e2-e4.
PromotedPlacements == {<<4, 7, 1>>, <<2, 7, 2>>, <<4, 7, 2>>}

\* The screen changes to a placement and the worker, after its cycles on it,
\* promotes the encoding: self.last_fen = fen; self.pending_fen = fen.
Promote ==
    /\ scene_changes < MaxPromotions
    /\ \E pl \in PromotedPlacements :
         /\ generate_fen(pl) # last_fen
         /\ scene' = pl
         /\ last_fen' = generate_fen(pl)
         /\ pending_fen' = generate_fen(pl)
    /\ scene_changes' = scene_changes + 1
    /\ UNCHANGED <<detection_running, recent_fens, consecutive_identical_fens,
                   w_pc, w_fen, w_count, main_vars, clicks, obs_vars,
                   gen_vars, side_vars>>

ReconcileNext == Promote \/ Tick \/ OnToggleAutoUpdate \/ OnUndo

ReconcileSpec == Init /\ [][ReconcileNext]_vars

----------------------------------------------------------------------------
(* FENGenerator: orientation and the mapping of a point to a square *)

\* FENGenerator.board_size, in pixels (the board is square).
board_size == 395

\* BoardView.board_size, in pixels.
view_board_size == 600

\* BoardView.square_size
view_square_size == view_board_size \div 8

\* Coordinates are counted in sixteenths of a pixel of the generator's
\* board, so that the centre of a rendered cell is a whole number.
Sub == 16

\* A whole pixel as a coordinate.
Pixel(p) == p * Sub

\* int(a / b) for b > 0: the quotient truncated towards zero.
int_div(a, b) == IF a >= 0 THEN a \div b ELSE -((-a) \div b)

min(a, b) == IF a < b THEN a ELSE b

max(a, b) == IF a > b THEN a ELSE b

\* chess.square, chess.square_file, chess.square_rank
square(file_idx, rank_idx) == rank_idx * 8 + file_idx

square_file(sq) == sq % 8

square_rank(sq) == sq \div 8

SQUARES == 0..63

\* piece["class"].startswith(prefix) for a one-letter prefix; a class is the
\* pair of its two letters.
startswith(class, prefix) == class[1] = prefix

\* The loop of detect_orientation: the white and the black detections whose
\* centre lies below the middle row of pixels.
RECURSIVE count_bottom(_)
count_bottom(pieces) ==
    IF pieces = <<>> THEN [white_bottom |-> 0, black_bottom |-> 0]
    ELSE LET before == count_bottom(SubSeq(pieces, 1, Len(pieces) - 1))
             piece == pieces[Len(pieces)]
             center_y == piece.center[2]
         IN  IF center_y > Pixel(board_size \div 2)
             THEN IF startswith(piece.class, "w")
                  THEN [before EXCEPT !.white_bottom = @ + 1]
                  ELSE IF startswith(piece.class, "b")
                       THEN [before EXCEPT !.black_bottom = @ + 1]
                       ELSE before
             ELSE before

\* detect_orientation with a strict majority of white required.
detect_orientation_strict(pieces) ==
    count_bottom(pieces).white_bottom > count_bottom(pieces).black_bottom

\* detect_orientation: the value stored in white_at_bottom and returned.
detect_orientation(pieces) ==
    count_bottom(pieces).white_bottom >= count_bottom(pieces).black_bottom

\* cell_index without the clamp to 0..7.
cell_index_unclamped(v) == int_div(v * 8, board_size * Sub)

\* min(7, max(0, int(v * 8 / self.board_size[...])))
cell_index(v) == min(7, max(0, int_div(v * 8, board_size * Sub)))

\* center_to_square that takes white to be at the bottom whatever the
\* orientation is.
center_to_square_upright(center, at_bottom) ==
    square(cell_index(center[1]), 7 - cell_index(center[2]))

\* center_to_square(center) with self.white_at_bottom = at_bottom.
center_to_square(center, at_bottom) ==
    LET file_idx == cell_index(center[1])
        rank_idx == cell_index(center[2])
    IN  IF at_bottom
        THEN square(file_idx, 7 - rank_idx)
        ELSE square(7 - file_idx, rank_idx)

\* BoardView._draw_pieces: the top left corner, in pixels of the view, of the
\* cell in which a piece on sq is drawn.
draw_position(sq, flipped) ==
    IF flipped
    THEN <<(7 - square_file(sq)) * view_square_size,
           square_rank(sq) * view_square_size>>
    ELSE <<square_file(sq) * view_square_size,
           (7 - square_rank(sq)) * view_square_size>>

\* The centre of that cell, scaled from the view's board to the generator's.
cell_centre(sq, flipped) ==
    LET corner == draw_position(sq, flipped)
        scaled(v) == ((2 * v + view_square_size) * board_size * Sub)
                         \div (2 * view_board_size)
    IN  <<scaled(corner[1]), scaled(corner[2])>>

\* Bound on the number of detections in one call.
MaxPieces == 2

\* The classes of the detections: a white and a black piece, a class with a
\* white prefix that is no piece, and a class of neither colour.
Classes == {<<"w", "p">>, <<"b", "k">>, <<"w", "x">>, <<"x", "x">>}

\* The rows of pixels of their centres: the middle row, which is the last
\* row of the top half, and the row below it, the first of the bottom half.
CentreRows == {board_size \div 2, board_size \div 2 + 1}

Detections ==
    {[class |-> c, center |-> <<Pixel(board_size \div 2), Pixel(y)>>] :
        c \in Classes, y \in CentreRows}

DetectionLists ==
    UNION {[1..n -> Detections] : n \in 0..MaxPieces}

\* Whole-pixel coordinates left of, on and right of the board, and on either
\* side of the border between its first two cells (395 / 8 = 49.375).
PixelCoords ==
    {-board_size, -1, 0, 49, 50, board_size - 1, board_size, 2 * board_size}

\* Whole-pixel centres: each coordinate above as x (with itself, an inner
\* row and the row below the board as y) and as y.
PixelCentres ==
    UNION {{<<Pixel(v), Pixel(w)>> : w \in {v, 100, board_size}} :
              v \in PixelCoords}
        \cup {<<Pixel(100), Pixel(v)>> : v \in PixelCoords}

\* The points handed to center_to_square: the centres of the 64 cells, and
\* the whole-pixel centres.
Centres == {cell_centre(sq, FALSE) : sq \in SQUARES} \cup PixelCentres

GenInit ==
    /\ AppInit
    /\ scene = <<4, 7, 1>>
    /\ detected_pieces \in DetectionLists
    /\ white_at_bottom = TRUE
    /\ gen_board = StandardPlacement
    /\ ret = NoCall
    /\ EngineConstructed

DetectOrientation ==
    /\ white_at_bottom' = detect_orientation(detected_pieces)
    /\ ret' = [op |-> "detect_orientation", arg |-> detected_pieces,
               value |-> detect_orientation(detected_pieces)]
    /\ UNCHANGED <<detected_pieces, gen_board, program_vars, obs_vars, scene,
                   scene_changes, clicks, side_vars>>

CenterToSquare ==
    /\ \E center \in Centres :
         ret' = [op |-> "center_to_square", arg |-> center,
                 value |-> center_to_square(center, white_at_bottom)]
    /\ UNCHANGED <<detected_pieces, white_at_bottom, gen_board, program_vars,
                   obs_vars, scene, scene_changes, clicks, side_vars>>

GenNext == DetectOrientation \/ CenterToSquare

GenSpec == GenInit /\ [][GenNext]_vars

----------------------------------------------------------------------------
(* Restarts of detection: a worker thread that outlives its join *)

\* _on_adjust_detection_area moves the region up by this many pixels.
AdjustStep == 30

\* A worker thread whose join timed out tests the flag like any other; of
\* its cycles the model takes those in which detect() yields no detections,
\* which leave the shared state alone.
O_Check ==
    /\ o_pc = "loop"
    /\ o_pc' = IF detection_running THEN "cycle" ELSE "dead"
    /\ UNCHANGED <<program_vars, obs_vars, scene, scene_changes, clicks,
                   gen_vars, screen_selection, engine_vars>>

O_Cycle ==
    /\ o_pc = "cycle"
    /\ o_pc' = "loop"
    /\ UNCHANGED <<program_vars, obs_vars, scene, scene_changes, clicks,
                   gen_vars, screen_selection, engine_vars>>

StaleWorker == O_Check \/ O_Cycle

\* _stop_detection followed by _start_detection while the worker is inside
\* detect() ("loop"): either the thread sees the cleared flag and ends within
\* the join's second, or the join times out and the thread lives on beside the
\* one _start_detection starts (at most one such thread is followed).
restart_detection ==
    /\ w_pc \in {"loop", "dead"}
    /\ detection_running' = TRUE
    /\ w_pc' = "loop"
    /\ \/ o_pc' = o_pc /\ Observe(None)
       \/ /\ w_pc = "loop" /\ o_pc = "dead"
          /\ o_pc' = "loop"
          /\ UNCHANGED obs_vars

\* _on_toggle_detection switching detection on after a stop whose join
\* timed out: the previous thread has not tested the flag since.
OnStartAfterTimeout ==
    /\ t_pc = "idle"
    /\ clicks < MaxClicks /\ clicks' = clicks + 1
    /\ ~detection_running
    /\ screen_selection # NoRegion
    /\ w_pc = "loop" /\ o_pc = "dead"
    /\ detection_running' = TRUE
    /\ o_pc' = "loop"
    /\ w_pc' = "loop"
    /\ UNCHANGED <<last_fen, pending_fen, recent_fens,
                   consecutive_identical_fens, w_fen, w_count, main_vars,
                   obs_vars, scene, scene_changes, gen_vars, screen_selection,
                   engine_vars>>

\* _on_adjust_detection_area: refused without a region; otherwise the region
\* moves up and a running detection is stopped and started again.
OnAdjustDetectionArea ==
    /\ t_pc = "idle"
    /\ clicks < MaxClicks /\ clicks' = clicks + 1
    /\ IF screen_selection = NoRegion
       THEN UNCHANGED <<screen_selection, detection_running, w_pc, o_pc,
                        obs_vars>>
       ELSE /\ screen_selection' = <<max(0, screen_selection[1] - AdjustStep)>>
            /\ IF detection_running
               THEN restart_detection
               ELSE UNCHANGED <<detection_running, w_pc, o_pc, obs_vars>>
    /\ UNCHANGED <<last_fen, pending_fen, recent_fens,
                   consecutive_identical_fens, w_fen, w_count, main_vars,
                   scene, scene_changes, gen_vars, engine_vars>>

RestartNext ==
    \/ Worker \/ StaleWorker
    \/ OnToggleDetection \/ OnStartAfterTimeout \/ OnAdjustDetectionArea

RestartSpec == Init /\ [][RestartNext]_vars

----------------------------------------------------------------------------
(* FENGenerator.generate_fen: the assembly of a placement and its encoding *)

\* The 12 piece codes of self.piece_map, each the pair of its letters.
PieceCodes == {"w", "b"} \X {"p", "n", "b", "r", "q", "k"}

\* self.piece_map, by the FEN symbol of the piece.
piece_map ==
    LET upper == [p |-> "P", n |-> "N", b |-> "B", r |-> "R", q |-> "Q",
                  k |-> "K"]
    IN  [code \in PieceCodes |->
           IF code[1] = "w" THEN upper[code[2]] ELSE code[2]]

EmptyBoard == [sq \in SQUARES |-> NoPiece]

\* clear that leaves the pieces where they are.
keep(board) == board

\* self.board.clear()
clear(board) == EmptyBoard

\* The loop of generate_fen in which the first detection on a square stays.
RECURSIVE place_first(_, _, _)
place_first(board, pieces, at_bottom) ==
    IF pieces = <<>> THEN board
    ELSE LET piece == Head(pieces)
             sq == center_to_square(piece.center, at_bottom)
         IN  IF piece.class \notin DOMAIN piece_map \/ board[sq] # NoPiece
             THEN place_first(board, Tail(pieces), at_bottom)
             ELSE place_first([board EXCEPT ![sq] = piece_map[piece.class]],
                              Tail(pieces), at_bottom)

\* The loop of generate_fen: each detection with a known class is put on
\* the square of its centre by self.board.set_piece_at, in list order.
RECURSIVE place_pieces(_, _, _)
place_pieces(board, pieces, at_bottom) ==
    IF pieces = <<>> THEN board
    ELSE LET piece == Head(pieces)
             sq == center_to_square(piece.center, at_bottom)
         IN  IF piece.class \notin DOMAIN piece_map
             THEN place_pieces(board, Tail(pieces), at_bottom)
             ELSE place_pieces([board EXCEPT ![sq] = piece_map[piece.class]],
                               Tail(pieces), at_bottom)

\* The digits that stand for a run of empty squares.
Digits == <<"1", "2", "3", "4", "5", "6", "7", "8">>

\* Board.board_fen() for one rank, from file f on, with a run of `run_len`
\* empty squares pending: the symbols of the pieces and the lengths of the
\* runs of empty squares between them.
RECURSIVE rank_fen(_, _, _, _)
rank_fen(board, rank_idx, f, run_len) ==
    LET pending == IF run_len > 0 THEN <<Digits[run_len]>> ELSE <<>>
    IN  IF f = 8 THEN pending
        ELSE IF board[square(f, rank_idx)] = NoPiece
             THEN rank_fen(board, rank_idx, f + 1, run_len + 1)
             ELSE pending \o <<board[square(f, rank_idx)]>>
                      \o rank_fen(board, rank_idx, f + 1, 0)

\* self.board.board_fen(): the ranks from the eighth to the first.
generator_board_fen(board) == [i \in 1..8 |-> rank_fen(board, 8 - i, 0, 0)]

\* The f-string of generate_fen: the placement and the five default fields.
fen_text(board) ==
    <<generator_board_fen(board), "w", "KQkq", "-", "0", "1">>

\* Three whole-pixel centres: two in the cell of the bottom left corner and
\* one in the cell of the top left corner.
AssemblyCentres ==
    {<<Pixel(24), Pixel(370)>>, <<Pixel(30), Pixel(380)>>,
     <<Pixel(24), Pixel(24)>>}

AssemblyDetections ==
    {[class |-> c, center |-> p] : c \in Classes, p \in AssemblyCentres}

AssemblyLists ==
    UNION {[1..n -> AssemblyDetections] : n \in 0..MaxPieces}

\* What a call finds in the generator: the flag, and how many squares of its
\* board are occupied.
Found ==
    [white_at_bottom |-> white_at_bottom,
     occupied |-> Cardinality({sq \in SQUARES : gen_board[sq] # NoPiece})]

\* generate_fen(detected_pieces) on the generator as earlier calls left it.
GenerateFen ==
    /\ \E pieces \in AssemblyLists :
         /\ detected_pieces' = pieces
         /\ white_at_bottom' = detect_orientation(pieces)
         /\ gen_board' = place_pieces(clear(gen_board), pieces,
                                      white_at_bottom')
         /\ ret' = [op |-> "generate_fen", arg |-> pieces,
                    value |-> fen_text(gen_board'), found |-> Found]
    /\ UNCHANGED <<program_vars, obs_vars, scene, scene_changes, clicks,
                   side_vars>>

AssemblyNext == GenerateFen

AssemblySpec == Init /\ [][AssemblyNext]_vars
----------------------------------------------------------------------------
(* StockfishEngine: start, stop, is_running and analyze *)

\* Bound on the number of engine processes launched in one run.
MaxSpawned == 3

\* The engine object e is [engine, spawned]; engine is NoEngine or the number
\* of the process self.engine stands for.

\* is_running(): self.engine is not None.
is_running(e) == e.engine # NoEngine

\* start() where popen_uci succeeds (launch_ok) or raises and configure
\* succeeds (configure_ok) or raises: the object afterwards and the value
\* returned.  self.engine is assigned before configure is called.
start(e, launch_ok, configure_ok) ==
    IF e.engine # NoEngine
    THEN [engine |-> e.engine, spawned |-> e.spawned, value |-> TRUE]
    ELSE IF ~launch_ok
    THEN [engine |-> NoEngine, spawned |-> e.spawned, value |-> FALSE]
    ELSE [engine |-> e.spawned + 1, spawned |-> e.spawned + 1,
          value |-> configure_ok]

\* stop() without its finally clause: self.engine is cleared only when
\* quit() or close() went through.
stop_without_finally(e, quit_ok, close_ok) ==
    IF e.engine = NoEngine
    THEN [engine |-> NoEngine, spawned |-> e.spawned, raised |-> FALSE]
    ELSE [engine |-> IF quit_ok \/ close_ok THEN NoEngine ELSE e.engine,
          spawned |-> e.spawned, raised |-> FALSE]

\* stop() where quit() succeeds or raises and close() succeeds or raises:
\* an exception of quit() is caught by the except clause, one of close() by
\* the inner except clause, and the finally clause clears self.engine.
stop(e, quit_ok, close_ok) ==
    [engine |-> NoEngine, spawned |-> e.spawned, raised |-> FALSE]

\* The one-entry result analyze returns in place of an analysis.
Placeholder(score) == <<[score |-> score, pv |-> "", moves |-> <<>>]>>

\* What the environment does during one call of analyze: the outcome of
\* engine.analyse ("ok", "terminated" for EngineTerminatedError, "error" for
\* another EngineError, "other" for any other exception) and of each popen_uci,
\* configure, quit and close the call may make.
Outcomes ==
    [analyse : {"ok", "terminated", "error", "other"},
     launch_ok : BOOLEAN, configure_ok : BOOLEAN,
     quit_ok : BOOLEAN, close_ok : BOOLEAN, relaunch_ok : BOOLEAN]

\* analyze() with the restart after an engine failure left out.
analyze_without_restart(e, o) ==
    LET first == start(e, o.launch_ok, o.configure_ok)
    IN  IF ~is_running(e) /\ ~first.value
        THEN [engine |-> first.engine, spawned |-> first.spawned,
              value |-> Placeholder("Engine error"), raised |-> FALSE,
              stopped |-> FALSE, restarts |-> 0]
        ELSE [engine |-> first.engine, spawned |-> first.spawned,
              value |-> IF o.analyse = "ok" THEN <<"analysis">>
                        ELSE Placeholder("Analysis error"),
              raised |-> FALSE, stopped |-> FALSE, restarts |-> 0]

\* analyze(): the object afterwards, the value returned, whether an exception
\* left the call, whether stop() was called and how often start() was called
\* to restart.
analyze(e, o) ==
    LET first == start(e, o.launch_ok, o.configure_ok)
        halted == stop(first, o.quit_ok, o.close_ok)
        again == start(halted, o.relaunch_ok, o.configure_ok)
    IN  IF ~is_running(e) /\ ~first.value
        THEN [engine |-> first.engine, spawned |-> first.spawned,
              value |-> Placeholder("Engine error"), raised |-> FALSE,
              stopped |-> FALSE, restarts |-> 0]
        ELSE IF o.analyse = "ok"
        THEN [engine |-> first.engine, spawned |-> first.spawned,
              value |-> <<"analysis">>, raised |-> FALSE,
              stopped |-> FALSE, restarts |-> 0]
        ELSE IF o.analyse \in {"terminated", "error"}
        THEN [engine |-> again.engine, spawned |-> again.spawned,
              value |-> Placeholder(IF o.analyse = "terminated"
                                    THEN "Engine restarting..."
                                    ELSE "Engine error"),
              raised |-> halted.raised, stopped |-> TRUE, restarts |-> 1]
        ELSE [engine |-> first.engine, spawned |-> first.spawned,
              value |-> Placeholder("Analysis error"), raised |-> FALSE,
              stopped |-> FALSE, restarts |-> 0]

\* The engine object as a record.
Engine == [engine |-> engine, spawned |-> spawned]

app_vars == <<program_vars, obs_vars, scene, scene_changes, clicks, gen_vars,
              screen_selection, o_pc>>

Start ==
    /\ \E launch_ok, configure_ok \in BOOLEAN :
         LET r == start(Engine, launch_ok, configure_ok)
         IN  /\ r.spawned <= MaxSpawned
             /\ engine' = r.engine
             /\ spawned' = r.spawned
             /\ engine_ret' = [op |-> "start", before |-> engine,
                               launch_ok |-> launch_ok, value |-> r.value]
    /\ UNCHANGED app_vars

Stop ==
    /\ \E quit_ok, close_ok \in BOOLEAN :
         LET r == stop(Engine, quit_ok, close_ok)
         IN  /\ engine' = r.engine
             /\ spawned' = r.spawned
             /\ engine_ret' = [op |-> "stop", before |-> engine,
                               quit_ok |-> quit_ok, close_ok |-> close_ok,
                               raised |-> r.raised]
    /\ UNCHANGED app_vars

Analyze ==
    /\ \E o \in Outcomes :
         LET r == analyze(Engine, o)
         IN  /\ r.spawned <= MaxSpawned
             /\ engine' = r.engine
             /\ spawned' = r.spawned
             /\ engine_ret' = [op |-> "analyze", before |-> engine,
                               outcomes |-> o, value |-> r.value,
                               raised |-> r.raised, stopped |-> r.stopped,
                               restarts |-> r.restarts]
    /\ UNCHANGED app_vars

EngineNext == Start \/ Stop \/ Analyze

EngineSpec == Init /\ [][EngineNext]_vars

----------------------------------------------------------------------------
(* The program under fair scheduling *)

\* The worker when every detection cycle produces the encoding of the
\* placement on the screen: no empty cycle, no garbled encoding.
CleanWorker ==
    /\ Worker
    /\ w_pc = "loop" => w_pc' \in {"check", "dead"}

\* The program before a screen that never changes, with a user who switches
\* detection and auto-update and uses Reset and Undo.
FairNext ==
    \/ CleanWorker \/ Tick
    \/ OnToggleDetection \/ OnToggleAutoUpdate \/ OnReset \/ OnUndo

\* The worker thread keeps running its loop (it sleeps 0.1 s per cycle) and
\* the 500 ms timer keeps firing on the main thread.
FairSpec ==
    /\ Init /\ [][FairNext]_vars
    /\ WF_vars(CleanWorker)
    /\ WF_vars(Tick)

----------------------------------------------------------------------------
(* Steps of the program, as the properties below refer to them *)

\* A step of the worker thread.
WorkerStep == w_pc' # w_pc /\ w_pc # "dead"

\* The timer tick's call of _auto_update_board(fen): _direct_update_board with
\* auto-update on and a fen that chess.Board accepts.
TickReconciles ==
    /\ t_pc = "apply" /\ t_pc' = "idle"
    /\ auto_update_enabled
    /\ ValidFen(t_fen)

\* The handler of the auto-update switch calls _auto_update_board(last_fen)
\* when it switches auto-update on and a last_fen is stored.
ToggleReconciles ==
    /\ clicks' # clicks
    /\ ~auto_update_enabled /\ auto_update_enabled'
    /\ Truthy(last_fen) /\ ValidFen(last_fen)

\* The encoding a step passes to _auto_update_board, None when it makes no
\* such call.
ReconciledFen ==
    IF TickReconciles THEN t_fen
    ELSE IF ToggleReconciles THEN last_fen
    ELSE None

\* The indices of the legal moves of board b that lead to the placement pl.
MovesTo(b, pl) ==
    {i \in 1..Len(legal_moves(b)) : board_fen(push(b, legal_moves(b)[i])) = pl}

\* The last element of a non-empty sequence.
Last(q) == q[Len(q)]

----------------------------------------------------------------------------
(* Properties *)

\* C1: in a run of cycles that starts on an empty stability window, produces
\* the same valid encoding e every cycle and is not disturbed by a write of the
\* main thread, the worker does not reach its promotion code during cycles 1
\* to stable_fen_threshold - 1; and when e differed from last_fen at the start,
\* the cycle number stable_fen_threshold ends with pending_fen = e and
\* last_fen = e.
C1_PromotesAtThreshold ==
    /\ (run.len >= 1 /\ run.len < stable_fen_threshold)
          => w_pc \notin {"cmp", "setlast", "setpend"}
    /\ (run.len = stable_fen_threshold /\ w_pc = "loop" /\ run.last0 # run.fen)
          => (pending_fen = run.fen /\ last_fen = run.fen)

\* C1, reached: the tenth cycle of an undisturbed run has ended and its
\* encoding is the pending hand-off.
C1_Witness ==
    /\ run.len = stable_fen_threshold
    /\ w_pc = "loop"
    /\ run.last0 # run.fen
    /\ pending_fen = run.fen
    /\ consecutive_identical_fens = stable_fen_threshold

\* C2: during one streak of consecutive cycles producing the same encoding the
\* worker promotes that encoding at most once, whatever the interleaving with
\* the timer tick: once the streak has promoted, the worker does not enter its
\* promotion code again before the streak ends.
C2_OncePerStreak ==
    streak.promoted => w_pc \notin {"setlast", "setpend"}

\* C3: the worker takes its new-encoding branch when recent_fens is empty
\* and, on a non-empty list, exactly when the valid encoding of this cycle
\* differs from recent_fens[-1]; on that branch its next write sets the
\* counter to exactly 1, whatever the counter was, and its write after that
\* makes the encoding the last element of recent_fens and leaves the counter
\* alone.
C3_CounterRestartsAtOne ==
    [][ /\ (w_pc = "check" /\ WorkerStep /\ recent_fens = <<>>)
            => w_pc' = "new"
        /\ (w_pc = "compare" /\ WorkerStep /\ recent_fens # <<>>)
            => ((w_pc' = "new") <=> (w_fen # Last(recent_fens)))
        /\ (w_pc = "new" /\ WorkerStep)
            => (consecutive_identical_fens' = 1 /\ w_pc' = "append")
        /\ (w_pc = "append" /\ WorkerStep)
            => /\ Last(recent_fens') = w_fen
               /\ consecutive_identical_fens' = consecutive_identical_fens
               /\ w_pc' = "trim" ]_vars

\* C3, reached: a second, different encoding has just been tracked and the
\* counter is 1.
C3_Witness ==
    /\ w_pc = "thresh"
    /\ Len(recent_fens) = 2
    /\ recent_fens[1] # recent_fens[2]
    /\ consecutive_identical_fens = 1

\* C4: when a step reconciles previous_board with an encoding whose
\* placement some legal move of previous_board produces, previous_board
\* becomes previous_board with such a move pushed onto it (its placement is
\* the new one, its side to move the opposite one, its other fields those of
\* the push, not those of the encoding) and the displayed board is that same
\* object; from the initial position and the placement after e2-e4 the result
\* is the initial position with e2e4 pushed, Black to move.
C4_MoveApplied ==
    [][ ReconciledFen # None =>
          LET pl == board_fen(Board(ReconciledFen))
              hits == MovesTo(previous_board, pl)
          IN  /\ hits # {} =>
                   /\ \E i \in hits :
                        previous_board' =
                            push(previous_board, legal_moves(previous_board)[i])
                   /\ board_fen(previous_board') = pl
                   /\ previous_board'.turn = ~previous_board.turn
                   /\ view_board' = previous_board'
                   /\ aliased'
              /\ (previous_board = StartBoard /\ pl = <<4, 7, 1>>) =>
                   /\ previous_board' = push(StartBoard, <<2, 4>>)
                   /\ previous_board'.turn = BLACK ]_vars

\* C4, reached: e2e4 has been pushed onto the initial position by a
\* reconciliation and the displayed board is previous_board itself.
C4_Witness ==
    /\ previous_board = push(StartBoard, <<2, 4>>)
    /\ view_board = previous_board
    /\ aliased
    /\ auto_update_enabled
    /\ last_fen = generate_fen(<<4, 7, 1>>)
    /\ Len(board_history) = 1
    /\ t_pc = "idle"

C6_TurnChangesOnlyByMove ==
    [][ previous_board'.turn # previous_board.turn =>
          \/ clicks' # clicks
          \/ \E i \in 1..Len(legal_moves(previous_board)) :
               previous_board' =
                   push(previous_board, legal_moves(previous_board)[i]) ]_vars

\* C7: recent_fens, the counter and last_fen are written by the main thread
\* only: no step of the worker changes any of them.
C7_SingleWriter ==
    [][ WorkerStep =>
          UNCHANGED <<recent_fens, consecutive_identical_fens, last_fen>> ]_vars

\* C8: no step of the worker changes previous_board or the displayed board
\* (or which object the view shows): they change only in steps of the main
\* thread, that is in the handler of a user action or in the apply step of a
\* tick with auto-update on.
C8_WorkerLeavesBoards ==
    [][ /\ WorkerStep => UNCHANGED <<previous_board, view_board, aliased>>
        /\ (previous_board' # previous_board \/ view_board' # view_board)
              => \/ clicks' # clicks
                 \/ (t_pc = "apply" /\ t_pc' = "idle" /\ auto_update_enabled) ]_vars

\* C8, reached: the worker has promoted an encoding and is in its next cycle
\* while both boards are still the initial position.
C8_Witness ==
    /\ Truthy(pending_fen)
    /\ last_fen = pending_fen
    /\ w_pc = "compare"
    /\ previous_board = StartBoard
    /\ view_board = StartBoard
    /\ board_history = <<>>

\* C9: the clearing step of the tick discards only the promotion the tick has
\* read: when it sets pending_fen to None, pending_fen holds the value the
\* tick took.
C9_ClearsWhatItRead ==
    [][ (t_pc = "clear" /\ t_pc' = "apply") => pending_fen = t_fen ]_vars

\* The user will act no more, detection is running and auto-update is on.
Settled ==
    /\ clicks = MaxClicks
    /\ detection_running
    /\ auto_update_enabled

\* C10: when the screen shows one placement for good, detection runs with
\* auto-update on and the user acts no more, previous_board eventually has
\* the placement on the screen, whatever promotions and user actions came
\* before.
C10_SettledPositionAdopted ==
    [](Settled => <>(board_fen(previous_board) = scene))

\* A step of Set Position on a text the rule engine accepts.
SetPositionAccepted ==
    \E f \in FenTexts : ValidFen(f) /\ OnSetPosition /\ SetPosition(f)

\* A step of one of the explicit overrides of the confirmed position.
OverrideStep ==
    SetPositionAccepted \/ OnReset \/ OnResetToDetected \/ OnUndo \/ OnRedo

\* C11: every explicit override that replaces the confirmed position (Set
\* Position on an accepted text, Reset, Reset to Detected, Undo, Redo) ends
\* with the stability window cleared: recent_fens empty and the counter 0.
C11_OverridesClearWindow ==
    [][ OverrideStep
          => (recent_fens' = <<>> /\ consecutive_identical_fens' = 0) ]_vars

\* C12: after a re-seed of the confirmed position (Set Position, Reset)
\* the worker promotes an encoding only when it has observed it in at least
\* stable_fen_threshold consecutive cycles that all started after the
\* re-seed, however the handler's reset of recent_fens and the counter falls
\* among the statements of a cycle in progress.
C12_PromotesOnlyFreshCycles ==
    w_pc \in {"setlast", "setpend"}
        => (fresh.fen = w_fen /\ fresh.len >= stable_fen_threshold)

\* The tick's call of _direct_update_board returns.
TickApplyStep == t_pc = "apply" /\ t_pc' = "idle"

\* C13: once detection has been stopped, an encoding that was promoted
\* but not yet consumed is dropped: a tick that runs while detection is
\* stopped applies nothing to the FEN field, last_fen, previous_board or the
\* displayed board.
C13_StoppedDropsPending ==
    [][ (TickApplyStep /\ ~detection_running /\ w_pc = "dead")
          => UNCHANGED <<fen_input, last_fen, previous_board, view_board>>
      ]_vars

\* A step of Set Position on a text the rule engine rejects.
SetPositionRejected ==
    \E f \in FenTexts : ~ValidFen(f) /\ OnSetPosition /\ SetPosition(f)

\* The tick consumes an encoding the rule engine rejects.
TickRejects == TickApplyStep /\ ~ValidFen(t_fen)

\* C14: Set Position on a rejected text, and the consumption of a pending
\* encoding that fails validation, leave previous_board, the displayed
\* board, the move history, last_fen, the stability window and the undo and
\* redo stacks exactly as they were.
C14_RejectedInputChangesNothing ==
    [][ (SetPositionRejected \/ TickRejects)
          => UNCHANGED <<previous_board, view_board, aliased, move_history,
                         last_fen, recent_fens, consecutive_identical_fens,
                         board_history, redo_stack>> ]_vars

\* The worker's except branch runs for an encoding the rule engine rejected.
InvalidCycleStep == w_pc = "invalid" /\ WorkerStep /\ ~ValidFen(w_fen)

\* C15 as stated: a cycle whose encoding fails validation neither
\* advances nor resets the counter (its value after the cycle is its value
\* before it) and promotes nothing.
C15_InvalidCycleKeepsCounter ==
    [][ InvalidCycleStep
          => /\ consecutive_identical_fens' = consecutive_identical_fens
             /\ UNCHANGED <<pending_fen, last_fen>> ]_vars

\* C15, amended: a cycle whose encoding fails validation goes straight to
\* the except branch, which sets the counter to 0 and ends the cycle; it
\* tracks nothing in recent_fens and promotes nothing.
C15_InvalidCycleResetsCounter ==
    [][ /\ (w_pc = "loop" /\ WorkerStep /\ w_fen' # None /\ ~ValidFen(w_fen'))
            => w_pc' = "invalid"
        /\ InvalidCycleStep
            => /\ consecutive_identical_fens' = 0
               /\ w_pc' = "loop"
               /\ UNCHANGED <<pending_fen, last_fen, recent_fens>> ]_vars

\* C15, reached: with detection as the only click, a rejected encoding has
\* ended a streak; the counter is 0 although an encoding is tracked.
C15_Witness ==
    /\ clicks = 1
    /\ w_pc = "loop"
    /\ streak = NoStreak
    /\ recent_fens # <<>>
    /\ consecutive_identical_fens = 0

\* C16: pending_fen is always either empty or an encoding the rule
\* engine has validated, at the start and after every step; and the except
\* branch of a cycle whose encoding failed validation changes neither
\* pending_fen nor previous_board nor the displayed board.
C16_PendingIsValidated ==
    [][ /\ Truthy(pending_fen) => ValidFen(pending_fen)
        /\ Truthy(pending_fen') => ValidFen(pending_fen')
        /\ InvalidCycleStep
             => UNCHANGED <<pending_fen, previous_board, view_board,
                            aliased>> ]_vars

\* C16, reached: a validated encoding is pending while the worker is in
\* the except branch of a later cycle whose encoding was rejected.
C16_Witness ==
    /\ Truthy(pending_fen)
    /\ ValidFen(pending_fen)
    /\ w_pc = "invalid"
    /\ ~ValidFen(w_fen)

BottomHalf(pieces, letter) ==
    {i \in 1..Len(pieces) :
        /\ 2 * pieces[i].center[2] > Pixel(board_size)
        /\ pieces[i].class[1] = letter}

\* C19: detect_orientation stores and returns true exactly when, among
\* the detections in the bottom half of the board, those with a
\* white-prefixed class are at least as many as those with a black-prefixed
\* class: a strict black majority gives false, a tie gives true, and a list
\* with no detection in the bottom half (the empty list too) gives true.
C19_OrientationByBottomMajority ==
    ret.op = "detect_orientation"
        => LET white == Cardinality(BottomHalf(ret.arg, "w"))
               black == Cardinality(BottomHalf(ret.arg, "b"))
           IN  /\ white_at_bottom = ret.value
               /\ ret.value <=> (white >= black)
               /\ black > white => ret.value = FALSE
               /\ black = white => ret.value = TRUE
               /\ ret.arg = <<>> => ret.value = TRUE

\* C19, reached: one white and one black detection in the bottom half, a
\* tie, and the call has returned true.
C19_Witness ==
    /\ ret.op = "detect_orientation"
    /\ Cardinality(BottomHalf(ret.arg, "w")) = 1
    /\ Cardinality(BottomHalf(ret.arg, "b")) = 1
    /\ ret.value = TRUE
    /\ white_at_bottom = TRUE

\* C20: for each of the 64 squares and both orientations, the centre of
\* the cell in which the square is rendered (white at the bottom: column =
\* file, row = 7 - rank; black at the bottom: column = 7 - file, row = rank),
\* scaled to the generator's board, is mapped back to that square by
\* center_to_square.
C20_SquareRoundTrip ==
    ret.op = "center_to_square"
        => \A sq \in SQUARES :
             ret.arg = cell_centre(sq, ~white_at_bottom) => ret.value = sq

\* C20, reached: with black at the bottom, the centre of the cell in the
\* top right corner, where a1 is rendered, has been mapped to a1.
C20_Witness ==
    /\ ret.op = "center_to_square"
    /\ ~white_at_bottom
    /\ ret.arg = cell_centre(square(0, 0), TRUE)
    /\ ret.arg[1] > Pixel(board_size \div 2)
    /\ ret.arg[2] < Pixel(board_size \div 2)
    /\ ret.value = square(0, 0)

\* clamp(v, 0, 7)
Clamp07(v) == IF v < 0 THEN 0 ELSE IF v > 7 THEN 7 ELSE v

\* C21: for every whole-pixel centre (x, y), negative coordinates and
\* coordinates at or beyond the board's extent included, center_to_square
\* returns the square with file index clamp(floor(x * 8 / w), 0, 7) and rank
\* index clamp(floor(y * 8 / h), 0, 7), the rank alone flipped (7 - rank)
\* when white is at the bottom and the file alone (7 - file) otherwise; the
\* result is one of the 64 squares for every centre.
C21_ClampedSquare ==
    ret.op = "center_to_square"
        => /\ ret.value \in SQUARES
           /\ ret.arg \in PixelCentres
                => LET x == ret.arg[1] \div Sub
                       y == ret.arg[2] \div Sub
                       file == Clamp07((x * 8) \div board_size)
                       rank == Clamp07((y * 8) \div board_size)
                   IN  ret.value = IF white_at_bottom
                                   THEN (7 - rank) * 8 + file
                                   ELSE rank * 8 + (7 - file)

\* C21, reached: with white at the bottom, the centre one pixel left of the
\* board and one row below it has been mapped to a1.
C21_Witness ==
    /\ ret.op = "center_to_square"
    /\ white_at_bottom
    /\ ret.arg = <<Pixel(-1), Pixel(board_size)>>
    /\ ret.value = 0

\* The positions in the list of the detections with a known class whose
\* centre is mapped to sq.
MappedTo(pieces, sq, at_bottom) ==
    {i \in 1..Len(pieces) :
        /\ pieces[i].class \in PieceCodes
        /\ center_to_square(pieces[i].center, at_bottom) = sq}

\* The largest element of a non-empty set of numbers.
Latest(S) == CHOOSE i \in S : \A j \in S : j <= i

\* C22: after generate_fen every square of the assembled placement holds
\* the piece of the last detection in list order, among those with a known
\* class, that is mapped to it, and is empty when none is mapped to it; the
\* returned encoding is the encoding of that placement.
C22_LastWriteWins ==
    ret.op = "generate_fen"
        => /\ \A sq \in SQUARES :
                LET hits == MappedTo(ret.arg, sq, white_at_bottom)
                IN  gen_board[sq] =
                        IF hits = {} THEN NoPiece
                        ELSE piece_map[ret.arg[Latest(hits)].class]
           /\ ret.value[1] = generator_board_fen(gen_board)

\* C22, reached: a white pawn and then a black king were detected in the
\* same cell; the square holds the king and every other square is empty.
C22_Witness ==
    /\ ret.op = "generate_fen"
    /\ Len(ret.arg) = 2
    /\ ret.arg[1].class = <<"w", "p">>
    /\ ret.arg[2].class = <<"b", "k">>
    /\ MappedTo(ret.arg, 0, white_at_bottom) = {1, 2}
    /\ gen_board[0] = "k"
    /\ \A sq \in SQUARES \ {0} : gen_board[sq] = NoPiece
    /\ ret.value[1][8] = <<"k", "7">>

\* The list without its i-th element.
Without(pieces, i) ==
    SubSeq(pieces, 1, i - 1) \o SubSeq(pieces, i + 1, Len(pieces))

\* What generate_fen returns for a list, and the orientation it estimates.
Assembled(pieces) ==
    [white_at_bottom |-> detect_orientation(pieces),
     placement |-> place_pieces(EmptyBoard, pieces,
                                detect_orientation(pieces)),
     encoding |-> fen_text(place_pieces(EmptyBoard, pieces,
                                        detect_orientation(pieces)))]

\* C23: a detection whose class is none of the 12 piece codes has no
\* effect on what generate_fen assembles: the call on the list without that
\* detection estimates the same orientation, assembles the same placement
\* and returns the same encoding as the call on the list.
C23_UnknownClassHasNoEffect ==
    ret.op = "generate_fen"
        => \A i \in 1..Len(ret.arg) :
             ret.arg[i].class \notin PieceCodes
                => /\ Assembled(Without(ret.arg, i)).white_at_bottom
                        = white_at_bottom
                   /\ Assembled(Without(ret.arg, i)).placement = gen_board
                   /\ Assembled(Without(ret.arg, i)).encoding = ret.value

\* C24: what generate_fen returns depends on the detection list alone:
\* whatever board and whatever white_at_bottom flag earlier calls left in
\* the generator, the returned encoding is the one assembled from the list
\* on an empty board with the orientation estimated from the list, so two
\* calls on the same list return the same encoding.
C24_EncodingDependsOnListOnly ==
    ret.op = "generate_fen"
        => /\ ret.value = Assembled(ret.arg).encoding
           /\ white_at_bottom = Assembled(ret.arg).white_at_bottom
           /\ gen_board = Assembled(ret.arg).placement

\* C24, reached: a call found the flag false and one piece on the board,
\* left by an earlier call, and has returned the encoding of a white pawn
\* alone on a1.
C24_Witness ==
    /\ ret.op = "generate_fen"
    /\ ret.found = [white_at_bottom |-> FALSE, occupied |-> 1]
    /\ Len(ret.arg) = 1
    /\ ret.arg[1].class = <<"w", "p">>
    /\ white_at_bottom
    /\ ret.value[1] = <<<<"8">>, <<"8">>, <<"8">>, <<"8">>, <<"8">>, <<"8">>,
                        <<"8">>, <<"P", "7">>>>

\* C25: a reconciliation with an encoding whose placement has two white kings
\* matches no legal move and adopts the encoding directly: previous_board and
\* the displayed board become the board of the encoding, the move history is
\* left as it was, and the update completes (the turn selector shows the
\* side to move of the adopted board, undo is enabled, redo is disabled).
C25_InvalidCountAdoptedDirectly ==
    [][ (ReconciledFen # None /\ ReconciledFen.wk = 2)
          => /\ MovesTo(previous_board, board_fen(Board(ReconciledFen))) = {}
             /\ previous_board' = Board(ReconciledFen)
             /\ view_board' = previous_board'
             /\ move_history' = move_history
             /\ white_turn_radio' = (previous_board'.turn = WHITE)
             /\ undo_enabled'
             /\ ~redo_enabled' ]_vars

\* C26: when a step reconciles previous_board with an encoding whose
\* placement a legal move of previous_board produces, the update completes:
\* the move history gains exactly one entry, holding the notation of that move
\* taken in the position before the push, the FEN input holds the encoding of
\* the resulting board, the turn selector shows its side to move and undo is
\* enabled.
C26_MovePathCompletes ==
    [][ ReconciledFen # None =>
          LET hits == MovesTo(previous_board, board_fen(Board(ReconciledFen)))
          IN  hits # {} =>
                /\ \E i \in hits :
                     LET m == legal_moves(previous_board)[i]
                     IN  /\ ~san_raises(previous_board, m)
                         /\ move_history' =
                              add_move_to_history(move_history, previous_board',
                                                  san(previous_board, m))
                /\ fen_input' = fen(previous_board')
                /\ white_turn_radio' = (previous_board'.turn = WHITE)
                /\ undo_enabled' ]_vars

\* C27: a reconciliation with an encoding whose placement previous_board
\* already has (the encoding it was last reconciled with: in this
\* specification previous_board changes in reconciliations and in undo only,
\* and every encoding is one the assembler produced) leaves previous_board as
\* it is, side to move, castling rights and the other fields included.
C27_ReconciliationIdempotent ==
    [][ (/\ ReconciledFen # None
         /\ last_fen = ReconciledFen
         /\ board_fen(Board(ReconciledFen)) = board_fen(previous_board))
          => previous_board' = previous_board ]_vars

\* C28: whenever no tick is in progress (every main-thread handler that ran
\* has completed), previous_board and the displayed board have the same
\* placement and the same side to move.
C28_BoardsAgreeBetweenHandlers ==
    t_pc = "idle"
        => /\ board_fen(previous_board) = board_fen(view_board)
           /\ previous_board.turn = view_board.turn

\* C29: a drag move made while previous_board and the displayed board are
\* the same position (the same object included) saves that position, the one
\* before the move, as the newest undo entry; and Undo makes the newest undo
\* entry both the displayed board and previous_board.
C29_DragMoveSavesPositionBefore ==
    [][ /\ (OnMoveMade /\ previous_board = view_board)
            => Last(board_history') = view_board
        /\ OnUndo
            => /\ view_board' = Last(board_history)
               /\ previous_board' = Last(board_history) ]_vars


\* C30: between two ticks, with a non-empty undo stack and the Undo button
\* enabled, Undo followed by Redo leaves the displayed board, previous_board,
\* the undo stack and the redo stack as they were before the Undo; Undo with
\* an empty undo stack and Redo with an empty redo stack change nothing.
C30_UndoRedoIdentity ==
    t_pc = "idle" =>
        LET s == MainState
            r == on_redo(on_undo(s))
        IN  /\ (board_history # <<>> /\ undo_enabled) =>
                  /\ r.view_board = s.view_board
                  /\ r.previous_board = s.previous_board
                  /\ r.board_history = s.board_history
                  /\ r.redo_stack = s.redo_stack
            /\ board_history = <<>> => on_undo(s) = s
            /\ redo_stack = <<>> => on_redo(s) = s

\* C31: every step that changes the board anew (Set Position on an accepted
\* text, Reset, Reset to Detected, a reconciliation, a drag move) appends
\* exactly one entry to the undo stack, a board as it was before the step
\* (the displayed board, or for a drag move previous_board), and leaves the
\* redo stack empty.
C31_ChangePushesBoardBefore ==
    [][ (\/ SetPositionAccepted \/ OnReset \/ OnResetToDetected
         \/ ReconciledFen # None \/ OnMoveMade)
          => /\ \/ board_history' = Append(board_history, view_board)
                \/ /\ OnMoveMade
                   /\ board_history' = Append(board_history, previous_board)
             /\ redo_stack' = <<>> ]_vars

\* C32: whenever no tick is in progress (every main-thread handler that ran
\* has completed, through its error path or not), the Undo button is enabled
\* exactly when the undo stack is non-empty and the Redo button exactly when
\* the redo stack is non-empty.
C32_ButtonsMatchStacks ==
    t_pc = "idle"
        => /\ undo_enabled <=> (board_history # <<>>)
           /\ redo_enabled <=> (redo_stack # <<>>)


\* C33: at most one _detection_worker loop is inside a cycle at any time: the
\* thread that outlived its join is not in a cycle while the thread started
\* after it is in one.
C33_OneWorkerAtATime ==
    ~(o_pc = "cycle" /\ w_pc \notin {"dead", "loop"})

\* C34: a cycle of the running worker in which detect() yields no image or no
\* detections (the only step that leaves the worker at the top of its loop
\* while no tick, handler or screen change takes place) leaves recent_fens,
\* the counter, last_fen and pending_fen as they were.
C34_EmptyCycleIsNoOp ==
    [][ (/\ w_pc = "loop" /\ w_pc' = "loop"
         /\ detection_running
         /\ UNCHANGED <<t_pc, clicks, scene, scene_changes, o_pc>>)
          => UNCHANGED <<recent_fens, consecutive_identical_fens, last_fen,
                         pending_fen>> ]_vars

\* C34, reached: with the start of detection as the only click, a cycle
\* without detections has interrupted the observed streak of identical
\* encodings while the counter and the tracked encodings stand.
C34_Witness ==
    /\ clicks = 1
    /\ detection_running
    /\ w_pc = "loop"
    /\ streak = NoStreak
    /\ consecutive_identical_fens >= 2
    /\ recent_fens # <<>>

\* C35: a click on the detection button while detection is off and no screen
\* region is selected leaves detection off, starts no worker thread and
\* changes nothing of the stability window, the hand-off, last_fen or the
\* boards; with a region it switches detection on and starts the worker at
\* the top of its loop; while detection is on it switches it off.
C35_StartNeedsRegion ==
    [][ OnToggleDetection =>
          /\ (~detection_running /\ screen_selection = NoRegion)
                => /\ ~detection_running'
                   /\ w_pc' = w_pc /\ o_pc' = o_pc
                   /\ UNCHANGED <<recent_fens, consecutive_identical_fens,
                                  last_fen, pending_fen, previous_board,
                                  view_board>>
          /\ (~detection_running /\ screen_selection # NoRegion)
                => (detection_running' /\ w_pc' = "loop")
          /\ detection_running => ~detection_running' ]_vars

\* C35, reached: without a region the detection button has been clicked
\* twice; detection is off and no worker thread exists.
C35_Witness ==
    /\ screen_selection = NoRegion
    /\ clicks = 2
    /\ ~detection_running
    /\ w_pc = "dead"

\* C36: a call of analyze lets no exception out; when the engine could not
\* be started or engine.analyse raised, it returns one placeholder entry
\* (empty pv, no moves) whose score is one of the error texts; and after an
\* EngineTerminatedError or another EngineError it has called stop() and has
\* called start() once to restart.
C36_AnalyzeNeverRaises ==
    engine_ret.op = "analyze" =>
        LET o == engine_ret.outcomes
            unstarted == /\ engine_ret.before = NoEngine
                         /\ ~(o.launch_ok /\ o.configure_ok)
        IN  /\ ~engine_ret.raised
            /\ (unstarted \/ o.analyse # "ok")
                  => /\ Len(engine_ret.value) = 1
                     /\ engine_ret.value[1].pv = ""
                     /\ engine_ret.value[1].moves = <<>>
                     /\ engine_ret.value[1].score \in
                            {"Engine error", "Engine restarting...",
                             "Analysis error"}
            /\ (~unstarted /\ o.analyse \in {"terminated", "error"})
                  => (engine_ret.stopped /\ engine_ret.restarts = 1)

\* C36, reached: the engine terminated during an analysis, quit() and
\* close() both raised while it was stopped, and the restart launched a new
\* process.
C36_Witness ==
    /\ engine_ret.op = "analyze"
    /\ engine_ret.before # NoEngine
    /\ engine_ret.outcomes.analyse = "terminated"
    /\ ~engine_ret.outcomes.quit_ok /\ ~engine_ret.outcomes.close_ok
    /\ engine_ret.value = Placeholder("Engine restarting...")
    /\ engine # NoEngine /\ engine # engine_ret.before

\* C37: after stop() the engine is not running, whether quit() and close()
\* raised or not; start() on a running engine launches no process and
\* returns True; start() whose launch fails returns False and leaves the
\* engine not running.
C37_EngineLifecycle ==
    /\ engine_ret.op = "stop"
          => (~is_running(Engine) /\ ~engine_ret.raised)
    /\ (engine_ret.op = "start" /\ engine_ret.before # NoEngine)
          => /\ engine_ret.value = TRUE
             /\ engine = engine_ret.before
             /\ engine <= spawned
    /\ (/\ engine_ret.op = "start" /\ engine_ret.before = NoEngine
        /\ ~engine_ret.launch_ok)
          => (engine_ret.value = FALSE /\ ~is_running(Engine))

\* C37, reached: a running engine has been stopped with quit() and close()
\* both raising.
C37_Witness ==
    /\ engine_ret.op = "stop"
    /\ engine_ret.before # NoEngine
    /\ ~engine_ret.quit_ok /\ ~engine_ret.close_ok
    /\ engine = NoEngine
====
